---- MODULE Spec2Model ----
(***************************************************************************)
(* Model of scripts/bench_plot.py: the quantile estimator, the grouping   *)
(* and pairing of benchmark samples, the memory-peak merge and the        *)
(* control flow of main.                                                   *)
(*                                                                         *)
(* Python floats are modelled as exact rationals <<num, den>> in lowest   *)
(* terms with den > 0, so that equal numbers are equal values.  Rounding  *)
(* of IEEE doubles is outside the model.  None is the empty tuple.        *)
(***************************************************************************)
EXTENDS Integers, Sequences, FiniteSets, TLC

VARIABLES
    sorted_vals,  \* quantile: the ascending sample sequence
    q1, q2,       \* quantile: two quantile levels
    res1, res2,   \* quantile: what quantile returned for q1 and q2
    rows,         \* the rows read from the CSV file, in file order
    op,           \* the operation name handed to the function applied
    by_n,         \* paired_speedup: its local index n -> sample -> variant -> value
    speedup,      \* what paired_speedup returned: xs, meds, p25s, p75s
    groups,       \* what group_samples returned for "base" and for "opt"
    summary,      \* what summarize returned for each of the two groups
    merged,       \* plot_mem_insert_peak: xs and the three lists it plots
    csv_exists,   \* main: whether CSV_FILE exists
    out_dir,      \* main: whether the directory OUT_DIR exists
    stdout,       \* main: the lines printed so far
    images,       \* main: the names of the images saved so far
    idx,          \* main: index of the operation the current loop is at
    pc            \* position of the running operation

qvars == <<sorted_vals, q1, q2, res1, res2>>
pvars == <<rows, op, by_n, speedup, groups, summary>>
mvars == <<merged, csv_exists, out_dir, stdout, images, idx>>
vars == <<sorted_vals, q1, q2, res1, res2, rows, op, by_n, speedup, groups,
          summary, merged, csv_exists, out_dir, stdout, images, idx, pc>>

\* the variables of main and of the memory plot while neither runs
MainIdle ==
    /\ merged = <<>>
    /\ csv_exists = TRUE
    /\ out_dir = FALSE
    /\ stdout = <<>>
    /\ images = {}
    /\ idx = 0

(* ------------------------------ bounds -------------------------------- *)
MaxLen == 4      \* longest sample sequence handed to quantile
MaxVal == 4      \* largest sample value handed to quantile
QDen   == 4      \* largest denominator of a quantile level

(* ---------------------------- rationals ------------------------------- *)
None == <<>>

RECURSIVE Gcd(_, _)
Gcd(a, b) == IF b = 0 THEN a ELSE Gcd(b, a % b)

Abs(x) == IF x < 0 THEN -x ELSE x

\* the rational n/d (d # 0) in lowest terms with a positive denominator
Rat(n, d) ==
    LET g == Gcd(Abs(n), Abs(d))
        s == IF d < 0 THEN -1 ELSE 1
    IN  <<(s * n) \div g, (s * d) \div g>>

RAdd(a, b) == Rat(a[1] * b[2] + b[1] * a[2], a[2] * b[2])
RSub(a, b) == Rat(a[1] * b[2] - b[1] * a[2], a[2] * b[2])
RMul(a, b) == Rat(a[1] * b[1], a[2] * b[2])
RDiv(a, b) == Rat(a[1] * b[2], a[2] * b[1])
RLe(a, b)  == a[1] * b[2] <= b[1] * a[2]
RLt(a, b)  == a[1] * b[2] < b[1] * a[2]
FromInt(k) == <<k, 1>>
ROne == FromInt(1)
RZero == FromInt(0)

\* Python int(x) of a float: truncation toward zero
IntTrunc(a) == IF a[1] >= 0 THEN a[1] \div a[2] ELSE -((-a[1]) \div a[2])

\* Python float(x) of a value that already is a float
Float(x) == Rat(x[1], x[2])

Min(a, b) == IF a <= b THEN a ELSE b

(* ----------------------------- quantile ------------------------------- *)
\* a plausible slip: the two interpolation weights exchanged
QuantileSwapped(vals, q) ==
    IF Len(vals) = 0 THEN None
    ELSE IF Len(vals) = 1 THEN Float(vals[1])
    ELSE LET pos  == RMul(FromInt(Len(vals) - 1), q)
             lo   == IntTrunc(pos)
             hi   == Min(lo + 1, Len(vals) - 1)
             frac == RSub(pos, FromInt(lo))
         IN  RAdd(RMul(Float(vals[lo + 1]), frac),
                  RMul(Float(vals[hi + 1]), RSub(ROne, frac)))

\* a plausible slip: the rank position taken from the length, not length - 1
QuantilePosLen(vals, q) ==
    IF Len(vals) = 0 THEN None
    ELSE IF Len(vals) = 1 THEN Float(vals[1])
    ELSE LET pos  == RMul(FromInt(Len(vals)), q)
             lo   == Min(IntTrunc(pos), Len(vals) - 1)
             hi   == Min(lo + 1, Len(vals) - 1)
             frac == RSub(pos, FromInt(lo))
         IN  RAdd(RMul(Float(vals[lo + 1]), RSub(ROne, frac)),
                  RMul(Float(vals[hi + 1]), frac))

\* quantile(sorted_vals, q); Python indexes from 0, TLA+ from 1
quantile(vals, q) ==
    IF Len(vals) = 0 THEN None
    ELSE IF Len(vals) = 1 THEN Float(vals[1])
    ELSE LET pos  == RMul(FromInt(Len(vals) - 1), q)
             lo   == IntTrunc(pos)
             hi   == Min(lo + 1, Len(vals) - 1)
             frac == RSub(pos, FromInt(lo))
         IN  RAdd(RMul(Float(vals[lo + 1]), RSub(ROne, frac)),
                  RMul(Float(vals[hi + 1]), frac))

(* ------------------------- CSV field texts ---------------------------- *)
\* A field of a csv.DictReader row is a string; a numeric field is modelled
\* as its sequence of characters.
Digits == {"0", "1", "2", "3", "4", "5", "6", "7", "8", "9"}

DigitVal(c) ==
    CASE c = "0" -> 0 [] c = "1" -> 1 [] c = "2" -> 2 [] c = "3" -> 3
      [] c = "4" -> 4 [] c = "5" -> 5 [] c = "6" -> 6 [] c = "7" -> 7
      [] c = "8" -> 8 [] c = "9" -> 9

AllDigits(t) == \A i \in 1..Len(t) : t[i] \in Digits

RECURSIVE DigitsValue(_)
DigitsValue(t) ==
    IF Len(t) = 0 THEN 0
    ELSE 10 * DigitsValue(SubSeq(t, 1, Len(t) - 1)) + DigitVal(t[Len(t)])

RECURSIVE Pow10(_)
Pow10(k) == IF k = 0 THEN 1 ELSE 10 * Pow10(k - 1)

\* int(text) succeeds on a non-empty run of digits and raises ValueError on
\* the other texts of the model (empty, or holding a letter or a point)
IsIntText(t) == Len(t) > 0 /\ AllDigits(t)
ParseInt(t) == DigitsValue(t)

\* float(text) succeeds on digits with at most one decimal point and at least
\* one digit, and raises ValueError on the other texts of the model
DotPositions(t) == {i \in 1..Len(t) : t[i] = "."}
WithoutDot(t) == SelectSeq(t, LAMBDA c : c # ".")
IsFloatText(t) ==
    /\ Cardinality(DotPositions(t)) <= 1
    /\ Len(WithoutDot(t)) > 0
    /\ AllDigits(WithoutDot(t))
ParseFloat(t) ==
    LET dots == DotPositions(t)
        decimals == IF dots = {} THEN 0 ELSE Len(t) - (CHOOSE i \in dots : TRUE)
    IN  Rat(DigitsValue(WithoutDot(t)), Pow10(decimals))

(* --------------------------- Python dicts ----------------------------- *)
\* A dict is its keys in insertion order and the mapping itself.
EmptyDict == [keys |-> <<>>, val |-> <<>>]
Has(d, k) == k \in DOMAIN d.val
Get(d, k) == d.val[k]
GetOr(d, k, default) == IF Has(d, k) THEN d.val[k] ELSE default
\* d[k] = v
Put(d, k, v) ==
    [keys |-> IF Has(d, k) THEN d.keys ELSE Append(d.keys, k),
     val  |-> (k :> v) @@ d.val]

(* ----------------------------- sorting -------------------------------- *)
RECURSIVE InsertRat(_, _)
InsertRat(s, x) ==
    IF Len(s) = 0 THEN <<x>>
    ELSE IF RLe(x, Head(s)) THEN <<x>> \o s
    ELSE <<Head(s)>> \o InsertRat(Tail(s), x)

\* sorted(list of floats), list.sort()
RECURSIVE SortedRats(_)
SortedRats(s) ==
    IF Len(s) = 0 THEN <<>>
    ELSE InsertRat(SortedRats(SubSeq(s, 1, Len(s) - 1)), s[Len(s)])

\* sorted(set or keys of ints)
RECURSIVE SortedInts(_)
SortedInts(S) ==
    IF S = {} THEN <<>>
    ELSE LET m == CHOOSE x \in S : \A y \in S : x <= y
         IN  <<m>> \o SortedInts(S \ {m})

(* --------------------- group_samples, summarize ----------------------- *)
\* a plausible slip: a value already in the group is not added again
GroupStepDedup(d, r, o, variant, key) ==
    IF r.op # o \/ r.variant # variant THEN d
    ELSE LET n == ParseInt(r.n)
             v == ParseFloat(r[key])
             old == GetOr(d, n, <<>>)
         IN  Put(d, n, IF \E i \in 1..Len(old) : old[i] = v THEN old
                       ELSE Append(old, v))

\* the body of the loop of group_samples for one row
GroupStep(d, r, o, variant, key) ==
    IF r.op # o \/ r.variant # variant THEN d
    ELSE LET n == ParseInt(r.n)
             v == ParseFloat(r[key])
         IN  Put(d, n, Append(GetOr(d, n, <<>>), v))

RECURSIVE GroupFold(_, _, _, _, _)
GroupFold(rs, k, o, variant, key) ==
    IF k = 0 THEN EmptyDict
    ELSE GroupStep(GroupFold(rs, k - 1, o, variant, key), rs[k], o, variant, key)

group_samples(rs, o, variant, key) == GroupFold(rs, Len(rs), o, variant, key)

\* group_samples raises ValueError at the first selected row it cannot parse
GroupSamplesRaises(rs, o, variant, key) ==
    \E i \in 1..Len(rs) :
        /\ rs[i].op = o
        /\ rs[i].variant = variant
        /\ ~IsIntText(rs[i].n) \/ ~IsFloatText(rs[i][key])

summarize(d) ==
    LET xs == SortedInts(DOMAIN d.val)
        vals(x) == SortedRats(d.val[x])
    IN  [xs  |-> xs,
         med |-> [i \in 1..Len(xs) |-> quantile(vals(xs[i]), Rat(1, 2))],
         p25 |-> [i \in 1..Len(xs) |-> quantile(vals(xs[i]), Rat(1, 4))],
         p75 |-> [i \in 1..Len(xs) |-> quantile(vals(xs[i]), Rat(3, 4))]]

(* -------------------------- paired_speedup ---------------------------- *)
\* a plausible slip: the first value of a variant is kept (setdefault)
PairedStepFirstWins(d, r, o) ==
    IF r.op # o THEN d
    ELSE LET n == ParseInt(r.n)
             s == ParseInt(r.sample)
             of_n == GetOr(d, n, EmptyDict)
             of_s == GetOr(of_n, s, EmptyDict)
         IN  Put(d, n, Put(of_n, s,
                 IF Has(of_s, r.variant) THEN of_s
                 ELSE Put(of_s, r.variant, ParseFloat(r.ns_per_op))))

\* by_n.setdefault(n, {}).setdefault(s, {})[r["variant"]] = float(r["ns_per_op"])
PairedStep(d, r, o) ==
    IF r.op # o THEN d
    ELSE LET n == ParseInt(r.n)
             s == ParseInt(r.sample)
             of_n == GetOr(d, n, EmptyDict)
             of_s == GetOr(of_n, s, EmptyDict)
         IN  Put(d, n, Put(of_n, s, Put(of_s, r.variant, ParseFloat(r.ns_per_op))))

RECURSIVE PairedFold(_, _, _)
PairedFold(rs, k, o) ==
    IF k = 0 THEN EmptyDict ELSE PairedStep(PairedFold(rs, k - 1, o), rs[k], o)

\* the index the first loop of paired_speedup builds
BuildByN(rs, o) == PairedFold(rs, Len(rs), o)

\* paired_speedup raises ValueError at the first row of op it cannot parse
PairedSpeedupRaises(rs, o) ==
    \E i \in 1..Len(rs) :
        /\ rs[i].op = o
        /\ \/ ~IsIntText(rs[i].n)
           \/ ~IsIntText(rs[i].sample)
           \/ ~IsFloatText(rs[i].ns_per_op)

\* a plausible slip: the zero test made on the numerator
ContributesWrongGuard(d) == Has(d, "base") /\ Has(d, "opt") /\ Get(d, "base") # RZero

\* whether the sample's dict d contributes a ratio
Contributes(d) == Has(d, "base") /\ Has(d, "opt") /\ Get(d, "opt") # RZero

\* the ratios of one size, in the order of the samples' first appearance
RECURSIVE RatiosFold(_, _)
RatiosFold(of_n, k) ==
    IF k = 0 THEN <<>>
    ELSE LET d == Get(of_n, of_n.keys[k])
             before == RatiosFold(of_n, k - 1)
         IN  IF Contributes(d)
             THEN Append(before, RDiv(Get(d, "base"), Get(d, "opt")))
             ELSE before

\* a plausible slip: ratios.sort() left out
RatiosUnsorted(of_n) == RatiosFold(of_n, Len(of_n.keys))

\* ratios after ratios.sort()
Ratios(of_n) == SortedRats(RatiosFold(of_n, Len(of_n.keys)))

\* a plausible slip: a size without ratios reported as 0 instead of None
QuantileOrZero(ratios, q) == IF Len(ratios) > 0 THEN quantile(ratios, q) ELSE RZero

\* quantile(ratios, q) if ratios else None
QuantileOrNone(ratios, q) == IF Len(ratios) > 0 THEN quantile(ratios, q) ELSE None

\* the lists the second loop of paired_speedup builds from by_n
SpeedupOf(d) ==
    LET xs == SortedInts(DOMAIN d.val)
        ratios(n) == Ratios(Get(d, n))
    IN  [xs   |-> xs,
         meds |-> [i \in 1..Len(xs) |-> QuantileOrNone(ratios(xs[i]), Rat(1, 2))],
         p25s |-> [i \in 1..Len(xs) |-> QuantileOrNone(ratios(xs[i]), Rat(1, 4))],
         p75s |-> [i \in 1..Len(xs) |-> QuantileOrNone(ratios(xs[i]), Rat(3, 4))]]

paired_speedup(rs, o) == SpeedupOf(BuildByN(rs, o))

(* ------------------------ plot_mem_insert_peak ------------------------ *)
MemOp == "mem_insert_peak"

\* a plausible slip: the expected bytes recorded for the rows of both variants
MemStepExpAlways(st, r) ==
    IF r.op # MemOp THEN st
    ELSE LET n == ParseInt(r.n)
             peak == IntTrunc(ParseFloat(r.mem_peak_bytes))
             expected == IntTrunc(ParseFloat(r.expected_node_bytes))
         IN  IF r.variant = "base"
             THEN [st EXCEPT !.base = Put(st.base, n, peak),
                             !.exp = Put(st.exp, n, expected)]
             ELSE IF r.variant = "opt"
             THEN [st EXCEPT !.opt = Put(st.opt, n, peak),
                             !.exp = Put(st.exp, n, expected)]
             ELSE st

\* the body of the loop of plot_mem_insert_peak for one row
MemStep(st, r) ==
    IF r.op # MemOp THEN st
    ELSE LET n == ParseInt(r.n)
             peak == IntTrunc(ParseFloat(r.mem_peak_bytes))
             expected == IntTrunc(ParseFloat(r.expected_node_bytes))
         IN  IF r.variant = "base"
             THEN [st EXCEPT !.base = Put(st.base, n, peak),
                             !.exp = Put(st.exp, n, expected)]
             ELSE IF r.variant = "opt"
             THEN [st EXCEPT !.opt = Put(st.opt, n, peak)]
             ELSE st

RECURSIVE MemFold(_, _)
MemFold(rs, k) ==
    IF k = 0 THEN [base |-> EmptyDict, opt |-> EmptyDict, exp |-> EmptyDict]
    ELSE MemStep(MemFold(rs, k - 1), rs[k])

\* the three dicts base, opt and exp after the loop
MemDicts(rs) == MemFold(rs, Len(rs))

\* plot_mem_insert_peak raises ValueError at the first row of the operation
\* it cannot parse
MemRaises(rs) ==
    \E i \in 1..Len(rs) :
        /\ rs[i].op = MemOp
        /\ \/ ~IsIntText(rs[i].n)
           \/ ~IsFloatText(rs[i].mem_peak_bytes)
           \/ ~IsFloatText(rs[i].expected_node_bytes)

\* d.get(x) as an element of a plotted list: <<v>> for the int v, <<>> for None
Plotted(d, x) == IF Has(d, x) THEN <<Get(d, x)>> ELSE None

\* xs and the three lists handed to plt.plot
MemSeries(rs) ==
    LET st == MemDicts(rs)
        xs == SortedInts(DOMAIN st.base.val \cup DOMAIN st.opt.val \cup DOMAIN st.exp.val)
    IN  [xs   |-> xs,
         base |-> [i \in 1..Len(xs) |-> Plotted(st.base, xs[i])],
         opt  |-> [i \in 1..Len(xs) |-> Plotted(st.opt, xs[i])],
         exp  |-> [i \in 1..Len(xs) |-> Plotted(st.exp, xs[i])]]

(* ------------------- specification: quantile alone -------------------- *)
\* ascending sequences of floats with integer values 0..MaxVal
IsAscending(s) == \A i \in 1..(Len(s) - 1) : RLe(s[i], s[i + 1])

AscendingSeqs ==
    {s \in UNION {[1..k -> {FromInt(v) : v \in 0..MaxVal}] : k \in 0..MaxLen} :
        IsAscending(s)}

\* quantile levels in [0,1] with denominators up to QDen
QLevels == {Rat(p[1], p[2]) : p \in {r \in (0..QDen) \X (1..QDen) : r[1] <= r[2]}}

InitQ ==
    /\ sorted_vals \in AscendingSeqs
    /\ q1 \in QLevels
    /\ q2 \in QLevels
    /\ res1 = None
    /\ res2 = None
    /\ pc = "quantile"
    /\ rows = <<>>
    /\ op = ""
    /\ by_n = None
    /\ speedup = None
    /\ groups = None
    /\ summary = None
    /\ MainIdle

ApplyQuantile ==
    /\ pc = "quantile"
    /\ res1' = quantile(sorted_vals, q1)
    /\ res2' = quantile(sorted_vals, q2)
    /\ pc' = "quantile_done"
    /\ UNCHANGED <<sorted_vals, q1, q2>>
    /\ UNCHANGED pvars
    /\ UNCHANGED mvars

NextQ == ApplyQuantile

SpecQ == InitQ /\ [][NextQ]_vars

\* the type-7 estimator as the specification words it: floor, then interpolate
Type7(v, q) ==
    LET len  == Len(v)
        pos  == RMul(FromInt(len - 1), q)
        lo   == CHOOSE k \in 0..len : RLe(FromInt(k), pos) /\ RLt(pos, FromInt(k + 1))
        hi   == IF lo + 1 <= len - 1 THEN lo + 1 ELSE len - 1
        frac == RSub(pos, FromInt(lo))
    IN  RAdd(RMul(v[lo + 1], RSub(ROne, frac)), RMul(v[hi + 1], frac))

Seq1234 == <<FromInt(1), FromInt(2), FromInt(3), FromInt(4)>>

\* C3: for an ascending sequence of length >= 2 and q in [0,1], quantile returns
\* values[lo]*(1-frac) + values[hi]*frac with pos = (length-1)*q, lo = floor(pos),
\* hi = min(lo+1, length-1), frac = pos - lo; quantile([1,2,3,4], 0.5) = 2.5 and
\* quantile([1,2,3,4], 0.25) = 1.75; for the empty sequence the result is absent.
C3_QuantileIsType7 ==
    pc = "quantile_done" =>
        /\ Len(sorted_vals) >= 2 => res1 = Type7(sorted_vals, q1)
        /\ Len(sorted_vals) = 0 => res1 = None
        /\ (sorted_vals = Seq1234 /\ q1 = Rat(1, 2)) => res1 = Rat(5, 2)
        /\ (sorted_vals = Seq1234 /\ q1 = Rat(1, 4)) => res1 = Rat(7, 4)

C3_Witness ==
    /\ pc = "quantile_done"
    /\ sorted_vals = Seq1234
    /\ q1 = Rat(1, 4)
    /\ res1 = Rat(7, 4)

\* C4: for a non-empty ascending sequence v and q in [0,1] with (length-1)*q an
\* integer k, quantile(v, q) = v[k]; so quantile(v, 0) = v[0], quantile(v, 1) =
\* v[last], and quantile([x], q) = x for every q.
C4_ExactAtPositions ==
    (pc = "quantile_done" /\ Len(sorted_vals) >= 1) =>
        /\ \A k \in 0..(Len(sorted_vals) - 1) :
              RMul(FromInt(Len(sorted_vals) - 1), q1) = FromInt(k)
                  => res1 = sorted_vals[k + 1]
        /\ q1 = RZero => res1 = sorted_vals[1]
        /\ q1 = ROne => res1 = sorted_vals[Len(sorted_vals)]
        /\ Len(sorted_vals) = 1 => res1 = sorted_vals[1]

C4_Witness ==
    /\ pc = "quantile_done"
    /\ Len(sorted_vals) = 3
    /\ RLt(sorted_vals[1], sorted_vals[2])
    /\ RLt(sorted_vals[2], sorted_vals[3])
    /\ q1 = Rat(1, 2)
    /\ res1 = sorted_vals[2]

\* C5, the estimator's part: for a fixed non-empty ascending sequence and
\* q1 < q2 in [0,1], quantile(v, q1) <= quantile(v, q2).
QuantileMonotonic ==
    (pc = "quantile_done" /\ Len(sorted_vals) >= 1 /\ RLt(q1, q2)) => RLe(res1, res2)

(* ------------------------ print_speedup_table ------------------------- *)
\* f"{m:.4f}": the number of ten-thousandths nearest to m, ties to even
Fmt4(m) ==
    LET scaled == RMul(m, FromInt(10000))
        whole  == scaled[1] \div scaled[2]
        twice  == 2 * (scaled[1] % scaled[2])
    IN  IF twice < scaled[2] THEN whole
        ELSE IF twice > scaled[2] THEN whole + 1
        ELSE IF whole % 2 = 0 THEN whole ELSE whole + 1

\* the lines the loop of print_speedup_table prints for the first k sizes
RECURSIVE TableFold(_, _)
TableFold(sp, k) ==
    IF k = 0 THEN <<>>
    ELSE IF sp.meds[k] = None THEN TableFold(sp, k - 1)
    ELSE Append(TableFold(sp, k - 1),
                [n |-> sp.xs[k], median |-> Fmt4(sp.meds[k]),
                 p25 |-> Fmt4(sp.p25s[k]), p75 |-> Fmt4(sp.p75s[k])])

TableLines(sp) == TableFold(sp, Len(sp.xs))

(* ------------------------ plot_speedup_paired ------------------------- *)
\* xs2, med2, p252, p752: the entries of the series whose median is not None
RECURSIVE FilterFold(_, _)
FilterFold(sp, k) ==
    IF k = 0 THEN [xs |-> <<>>, med |-> <<>>, p25 |-> <<>>, p75 |-> <<>>]
    ELSE LET before == FilterFold(sp, k - 1)
         IN  IF sp.meds[k] = None THEN before
             ELSE [xs  |-> Append(before.xs, sp.xs[k]),
                   med |-> Append(before.med, sp.meds[k]),
                   p25 |-> Append(before.p25, sp.p25s[k]),
                   p75 |-> Append(before.p75, sp.p75s[k])]

FilterSeries(sp) == FilterFold(sp, Len(sp.xs))

(* ------------- specification: grouping and pairing of rows ------------ *)
MaxRows == 3     \* most rows in the CSV file

TimeOp  == "time_search_hit"
OtherOp == "time_predecessor"
OpNames == {TimeOp, OtherOp}
Variants == {"base", "opt"}
SizeTexts == {<<"1", "0">>, <<"2", "0">>}
SampleTexts == {<<"0">>, <<"1">>}
NsTexts == {<<"0">>, <<"1", ".", "0">>, <<"2", ".", "0">>}

\* a row of a timing operation: its memory columns are empty
Row(o, v, n, s, ns) ==
    [op |-> o, variant |-> v, n |-> n, sample |-> s, ns_per_op |-> ns,
     mem_peak_bytes |-> <<>>, expected_node_bytes |-> <<>>]

TimeRows ==
    {Row(TimeOp, v, n, s, ns) :
        v \in Variants, n \in SizeTexts, s \in SampleTexts, ns \in NsTexts}
OtherRow == Row(OtherOp, "base", <<"1", "0">>, <<"0">>, <<"1", ".", "0">>)

\* the inputs of the pairing: every timing row of size 10; of size 20 the rows
\* of sample 0 with the values 0 and 1.0; and one row of another operation
RowSet ==
    {r \in TimeRows :
        r.n = <<"2", "0">> =>
            (r.sample = <<"0">> /\ r.ns_per_op \in {<<"0">>, <<"1", ".", "0">>})}
    \cup {OtherRow}

\* the sequences over S of length at most k hold the rows of a file
InitRows(S, k) ==
    /\ \E j \in 0..k : rows \in [1..j -> S]
    /\ op = TimeOp
    /\ by_n = None
    /\ speedup = None
    /\ groups = None
    /\ summary = None
    /\ MainIdle
    /\ pc = "pipeline"
    /\ sorted_vals = <<>>
    /\ q1 = RZero
    /\ q2 = RZero
    /\ res1 = None
    /\ res2 = None

Init == InitRows(RowSet, MaxRows)

\* paired_speedup(rows, op)
ApplyPairedSpeedup ==
    /\ pc = "pipeline"
    /\ ~PairedSpeedupRaises(rows, op)
    /\ by_n' = BuildByN(rows, op)
    /\ speedup' = SpeedupOf(by_n')
    /\ pc' = "paired"
    /\ UNCHANGED <<rows, op, groups, summary>>
    /\ UNCHANGED qvars
    /\ UNCHANGED mvars

\* group_samples and summarize for both variants, as plot_time calls them
ApplyGroupSamples ==
    /\ pc = "pipeline"
    /\ \A v \in Variants : ~GroupSamplesRaises(rows, op, v, "ns_per_op")
    /\ groups' = [v \in Variants |-> group_samples(rows, op, v, "ns_per_op")]
    /\ summary' = [v \in Variants |-> summarize(groups'[v])]
    /\ pc' = "grouped"
    /\ UNCHANGED <<rows, op, by_n, speedup>>
    /\ UNCHANGED qvars
    /\ UNCHANGED mvars

Next == ApplyPairedSpeedup

Spec == Init /\ [][Next]_vars

(* ------------------- specification: grouping of rows ------------------ *)
MaxGroupRows == 2    \* most rows handed to group_samples

InitGroup == InitRows(TimeRows \cup {OtherRow}, MaxGroupRows)

NextGroup == ApplyGroupSamples

SpecGroup == InitGroup /\ [][NextGroup]_vars

(* ----------------- what the rows say, read off directly --------------- *)
\* the rows with their numeric fields read
ParsedRows ==
    [i \in 1..Len(rows) |->
        [op |-> rows[i].op, variant |-> rows[i].variant,
         n |-> ParseInt(rows[i].n), s |-> ParseInt(rows[i].sample),
         x |-> ParseFloat(rows[i].ns_per_op)]]

\* the rows of op with size n, sample s and variant v, by position
RowsAt(p, n, s, v) ==
    {i \in DOMAIN p :
        p[i].op = op /\ p[i].variant = v /\ p[i].n = n /\ p[i].s = s}

Maximum(S) == CHOOSE x \in S : \A y \in S : y <= x

\* the value of the last row of that key in input order
LastValue(p, n, s, v) == p[Maximum(RowsAt(p, n, s, v))].x

SizesOfOp(p) == {p[i].n : i \in {j \in DOMAIN p : p[j].op = op}}
SamplesOfOp(p) == {p[i].s : i \in {j \in DOMAIN p : p[j].op = op}}

\* the samples of size n that have a base value, an opt value and opt # 0
Matched(p, n) ==
    {s \in SamplesOfOp(p) :
        /\ RowsAt(p, n, s, "base") # {}
        /\ RowsAt(p, n, s, "opt") # {}
        /\ LastValue(p, n, s, "opt") # RZero}

\* the ratios base/opt of the matched samples of size n, ascending
MatchedRatios(p, n) ==
    LET ss == SortedInts(Matched(p, n))
    IN  SortedRats([i \in 1..Len(ss) |->
            RDiv(LastValue(p, n, ss[i], "base"), LastValue(p, n, ss[i], "opt"))])

\* the index of size n in the returned sizes
IndexOf(xs, n) == CHOOSE i \in 1..Len(xs) : xs[i] = n

ExampleRows ==
    <<Row(TimeOp, "base", <<"1", "0">>, <<"0">>, <<"2", ".", "0">>),
      Row(TimeOp, "opt", <<"1", "0">>, <<"0">>, <<"1", ".", "0">>)>>

\* C1: in paired_speedup a sample of size n contributes the ratio base/opt to
\* the ratios of n exactly when it has a base and an opt value and the opt value
\* is not zero; other samples contribute nothing and no error is raised; the
\* single pair base 2.0, opt 1.0 at size 10 gives median = p25 = p75 = 2.0.
C1_RatiosOfMatchedSamples ==
    /\ ~PairedSpeedupRaises(rows, op)
    /\ pc = "paired" =>
        LET p == ParsedRows
        IN  /\ \A n \in SizesOfOp(p) :
                /\ Ratios(Get(by_n, n)) = MatchedRatios(p, n)
                /\ \A s \in SamplesOfOp(p) :
                      Has(Get(by_n, n), s) =>
                          (Contributes(Get(Get(by_n, n), s)) <=> s \in Matched(p, n))
            /\ (rows = ExampleRows /\ op = TimeOp) =>
                  speedup = [xs |-> <<10>>, meds |-> <<FromInt(2)>>,
                             p25s |-> <<FromInt(2)>>, p75s |-> <<FromInt(2)>>]

\* a size with one matched sample and one sample whose opt value is 0
C1_Witness ==
    /\ pc = "paired"
    /\ LET p == ParsedRows
       IN  \E n \in SizesOfOp(p) :
            /\ Cardinality(Matched(p, n)) = 1
            /\ \E s \in SamplesOfOp(p) \ Matched(p, n) :
                  /\ RowsAt(p, n, s, "opt") # {}
                  /\ LastValue(p, n, s, "opt") = RZero
            /\ Len(Ratios(Get(by_n, n))) = 1

\* C2 as the specification states it: the series paired_speedup returns holds
\* only sizes with at least one valid paired ratio.
C2_OnlySizesWithRatios ==
    pc = "paired" =>
        \A i \in 1..Len(speedup.xs) : Matched(ParsedRows, speedup.xs[i]) # {}

\* C2 amended: paired_speedup returns every size that has a row of op, with
\* None for median, p25 and p75 exactly at the sizes without a valid ratio;
\* print_speedup_table and plot_speedup_paired skip those entries, so the
\* table and the plotted series hold exactly the sizes with a valid ratio.
C2_AbsentEntriesSkippedByCallers ==
    pc = "paired" =>
        LET p == ParsedRows
            withRatio == {n \in SizesOfOp(p) : Matched(p, n) # {}}
            table == TableLines(speedup)
            series == FilterSeries(speedup)
        IN  /\ speedup.xs = SortedInts(SizesOfOp(p))
            /\ \A i \in 1..Len(speedup.xs) :
                /\ speedup.meds[i] = None <=> speedup.xs[i] \notin withRatio
                /\ speedup.p25s[i] = None <=> speedup.xs[i] \notin withRatio
                /\ speedup.p75s[i] = None <=> speedup.xs[i] \notin withRatio
            /\ {table[j].n : j \in 1..Len(table)} = withRatio
            /\ {series.xs[j] : j \in 1..Len(series.xs)} = withRatio

\* two sizes returned, one with a ratio and one without
C2_Witness ==
    /\ pc = "paired"
    /\ Len(speedup.xs) = 2
    /\ speedup.meds[1] = None
    /\ speedup.meds[2] # None
    /\ Len(TableLines(speedup)) = 1

\* the values of the rows of op with variant v and size n, in input order
RECURSIVE ValuesInOrder(_, _, _, _)
ValuesInOrder(p, k, v, n) ==
    IF k = 0 THEN <<>>
    ELSE IF p[k].op = op /\ p[k].variant = v /\ p[k].n = n
         THEN Append(ValuesInOrder(p, k - 1, v, n), p[k].x)
         ELSE ValuesInOrder(p, k - 1, v, n)

RECURSIVE SumOver(_, _)
SumOver(f, S) ==
    IF S = {} THEN 0
    ELSE LET x == CHOOSE y \in S : TRUE IN f[x] + SumOver(f, S \ {x})

\* the number of values held by the groups of variant v
GroupCount(v) ==
    SumOver([n \in DOMAIN groups[v].val |-> Len(groups[v].val[n])],
            DOMAIN groups[v].val)

\* C6: grouping is lossless: every row of an operation lands in exactly one
\* (operation, variant, size) group, so the groups of the operation hold as many
\* values as the input has rows of it, and equal values under one key are all kept.
C6_GroupingLossless ==
    pc = "grouped" =>
        LET p == ParsedRows
        IN  /\ SumOver([v \in Variants |-> GroupCount(v)], Variants)
                  = Cardinality({i \in 1..Len(rows) : rows[i].op = op})
            /\ \A v \in Variants :
                /\ DOMAIN groups[v].val =
                      {n \in SizesOfOp(p) : ValuesInOrder(p, Len(rows), v, n) # <<>>}
                /\ \A n \in DOMAIN groups[v].val :
                      groups[v].val[n] = ValuesInOrder(p, Len(rows), v, n)

\* a group that holds the same value twice
C6_Witness ==
    /\ pc = "grouped"
    /\ \E n \in DOMAIN groups["base"].val :
        /\ Len(groups["base"].val[n]) = 2
        /\ groups["base"].val[n][1] = groups["base"].val[n][2]

\* C9: the paired index holds at most one value per variant per (operation,
\* size, sample) key: of several rows with the same key and variant the value of
\* the last one in input order is kept and used for the ratio, no error raised.
C9_LastRowWins ==
    /\ ~PairedSpeedupRaises(rows, op)
    /\ pc = "paired" =>
        LET p == ParsedRows
        IN  /\ DOMAIN by_n.val = SizesOfOp(p)
            /\ \A n \in SizesOfOp(p) : \A s \in SamplesOfOp(p) : \A v \in Variants :
                /\ (Has(Get(by_n, n), s) /\ Has(Get(Get(by_n, n), s), v))
                      <=> RowsAt(p, n, s, v) # {}
                /\ RowsAt(p, n, s, v) # {} =>
                      Get(Get(Get(by_n, n), s), v) = LastValue(p, n, s, v)
            /\ \A n \in SizesOfOp(p) :
                  Cardinality(Matched(p, n)) = 1 =>
                      LET s == CHOOSE x \in Matched(p, n) : TRUE
                      IN  speedup.meds[IndexOf(speedup.xs, n)] =
                              RDiv(LastValue(p, n, s, "base"), LastValue(p, n, s, "opt"))

\* two base rows of one key with different values, and the matching opt row
C9_Witness ==
    /\ pc = "paired"
    /\ LET p == ParsedRows
       IN  \E n \in SizesOfOp(p) : \E s \in Matched(p, n) :
            /\ Cardinality(RowsAt(p, n, s, "base")) = 2
            /\ \E i, j \in RowsAt(p, n, s, "base") : i < j /\ p[i].x # p[j].x
            /\ speedup.meds[IndexOf(speedup.xs, n)] =
                  RDiv(LastValue(p, n, s, "base"), LastValue(p, n, s, "opt"))

(* --------- specification: paired_speedup on rearranged inputs --------- *)
MaxOrderRows == 4    \* most rows in a rearranged input

\* one measurement per (size, sample, variant): the ratio base/opt is 2 for
\* sample 0 of size 10 and sample 1 of size 20, and 1/2 for the two others
OrderNs(v, n, s) ==
    IF (v = "base") = ((s = <<"0">>) = (n = <<"1", "0">>))
    THEN <<"2", ".", "0">> ELSE <<"1", ".", "0">>

OrderRowSet ==
    {Row(TimeOp, v, n, s, OrderNs(v, n, s)) :
        v \in Variants, n \in SizeTexts, s \in SampleTexts}
    \cup {OtherRow}

KeyOf(r) == <<r.op, ParseInt(r.n), ParseInt(r.sample), r.variant>>

\* no two rows share the same (op, n, sample, variant)
NoDupKeys(rs) ==
    \A i, j \in 1..Len(rs) : i # j => KeyOf(rs[i]) # KeyOf(rs[j])

InitOrder ==
    /\ InitRows(OrderRowSet, MaxOrderRows)
    /\ NoDupKeys(rows)

Swapped(rs, i) ==
    [k \in 1..Len(rs) |->
        IF k = i THEN rs[i + 1] ELSE IF k = i + 1 THEN rs[i] ELSE rs[k]]
Inserted(rs, i, r) == SubSeq(rs, 1, i - 1) \o <<r>> \o SubSeq(rs, i, Len(rs))
Removed(rs, i) == SubSeq(rs, 1, i - 1) \o SubSeq(rs, i + 1, Len(rs))

\* paired_speedup applied to the rows rs
ApplyTo(rs) ==
    /\ ~PairedSpeedupRaises(rs, op)
    /\ rows' = rs
    /\ by_n' = BuildByN(rs, op)
    /\ speedup' = SpeedupOf(by_n')
    /\ pc' = "paired"
    /\ UNCHANGED <<op, groups, summary>>
    /\ UNCHANGED qvars
    /\ UNCHANGED mvars

\* paired_speedup applied again with two neighbouring rows exchanged
ApplySwapped ==
    /\ pc = "paired"
    /\ \E i \in 1..(Len(rows) - 1) : ApplyTo(Swapped(rows, i))

\* paired_speedup applied again with a row of another operation added
ApplyWithOtherRow ==
    /\ pc = "paired"
    /\ Len(rows) < MaxOrderRows
    /\ \E i \in 1..(Len(rows) + 1) :
        /\ NoDupKeys(Inserted(rows, i, OtherRow))
        /\ ApplyTo(Inserted(rows, i, OtherRow))

\* paired_speedup applied again with a row of another operation removed
ApplyWithoutOtherRow ==
    /\ pc = "paired"
    /\ \E i \in 1..Len(rows) :
        /\ rows[i].op # op
        /\ ApplyTo(Removed(rows, i))

NextOrder ==
    \/ ApplyPairedSpeedup
    \/ ApplyGroupSamples
    \/ ApplySwapped
    \/ ApplyWithOtherRow
    \/ ApplyWithoutOtherRow

SpecOrder == InitOrder /\ [][NextOrder]_vars

StrictlyAscending(xs) == \A i \in 1..(Len(xs) - 1) : xs[i] < xs[i + 1]

\* C10: for an input in which no two rows share (op, n, sample, variant),
\* paired_speedup(rows, op) returns the same sizes (ascending, without repeats)
\* and the same median, p25 and p75 lists for every permutation of the rows and
\* with rows of other operations added or removed.
C10_OrderIndependent ==
    [][(pc = "paired" /\ pc' = "paired" /\ NoDupKeys(rows))
          => (speedup' = speedup /\ StrictlyAscending(speedup'.xs))]_vars

\* two ratios at one size, first met in descending order
C10_Witness ==
    /\ pc = "paired"
    /\ NoDupKeys(rows)
    /\ \E n \in SizesOfOp(ParsedRows) :
        /\ Cardinality(Matched(ParsedRows, n)) = 2
        /\ LET unsorted == RatiosFold(Get(by_n, n), Len(Get(by_n, n).keys))
           IN  RLt(unsorted[2], unsorted[1])

(* ------ specification: the estimator and the triples built on it ------ *)
InitMono == InitQ \/ InitOrder
NextMono == NextQ \/ NextOrder
SpecMono == InitMono /\ [][NextMono]_vars

\* a triple is absent as a whole or ordered p25 <= median <= p75
OrderedTriple(med, p25, p75) ==
    \/ med = None /\ p25 = None /\ p75 = None
    \/ /\ med # None /\ p25 # None /\ p75 # None
       /\ RLe(p25, med)
       /\ RLe(med, p75)

C5_StrictTripleReached ==
    /\ pc = "paired"
    /\ \E i \in 1..Len(speedup.xs) :
         /\ speedup.meds[i] # None
         /\ RLt(speedup.p25s[i], speedup.meds[i])
         /\ RLt(speedup.meds[i], speedup.p75s[i])

(* ---------------- specification: the memory-peak merge ---------------- *)
MaxMemRows == 3      \* most rows handed to plot_mem_insert_peak

MemSizeTexts == {<<"1", "0", "0">>, <<"2", "0", "0">>}
PeakTexts == {<<"6", "4">>, <<"9", "6", ".", "5">>}
ExpectedTexts == {<<"4", "8">>}

MemRow(v, n, peak, expected) ==
    [op |-> MemOp, variant |-> v, n |-> n, sample |-> <<"0">>, ns_per_op |-> <<>>,
     mem_peak_bytes |-> peak, expected_node_bytes |-> expected]

MemRowSet ==
    {MemRow(v, n, peak, expected) :
        v \in Variants, n \in MemSizeTexts, peak \in PeakTexts,
        expected \in ExpectedTexts}
    \cup {OtherRow}

InitMem ==
    /\ \E j \in 0..MaxMemRows : rows \in [1..j -> MemRowSet]
    /\ op = MemOp
    /\ pc = "mem"
    /\ by_n = None
    /\ speedup = None
    /\ groups = None
    /\ summary = None
    /\ MainIdle
    /\ sorted_vals = <<>>
    /\ q1 = RZero
    /\ q2 = RZero
    /\ res1 = None
    /\ res2 = None

\* plot_mem_insert_peak(rows, out_name): no image when there is no size
ApplyPlotMem ==
    /\ pc = "mem"
    /\ ~MemRaises(rows)
    /\ merged' = MemSeries(rows)
    /\ images' = IF Len(merged'.xs) = 0 THEN images
                 ELSE images \cup {"memory_insert_peak.png"}
    /\ pc' = "mem_done"
    /\ UNCHANGED <<csv_exists, out_dir, stdout, idx>>
    /\ UNCHANGED pvars
    /\ UNCHANGED qvars

NextMem == ApplyPlotMem

SpecMem == InitMem /\ [][NextMem]_vars

\* the rows of the memory operation with variant v and size n, by position
MemRowsAt(v, n) ==
    {i \in 1..Len(rows) :
        rows[i].op = MemOp /\ rows[i].variant = v /\ ParseInt(rows[i].n) = n}
MemSizes(v) ==
    {ParseInt(rows[i].n) :
        i \in {j \in 1..Len(rows) : rows[j].op = MemOp /\ rows[j].variant = v}}

\* how many of the three fields of entry i hold a value
Populated(i) ==
    Cardinality({f \in {"base", "opt", "exp"} : merged[f][i] # None})

\* whole bytes of a text, as int(float(text)) gives them
Bytes(t) == ParseFloat(t)[1] \div ParseFloat(t)[2]

\* C7 as the specification states it: with base-only data at size 100 and
\* opt-only data at size 200 the merged series has entries for 100 and 200,
\* each with exactly one populated field and two gaps.
C7_OnePopulatedFieldEach ==
    (pc = "mem_done" /\ MemSizes("base") = {100} /\ MemSizes("opt") = {200}) =>
        /\ merged.xs = <<100, 200>>
        /\ \A i \in 1..2 : Populated(i) = 1

\* C7 amended: the merge has one aligned entry per size in the union of the key
\* sets of base peak, opt peak and expected bytes, with None wherever a series
\* lacks the size; expected bytes are recorded by the base rows, so with
\* base-only data at 100 and opt-only data at 200 the entry for 100 has two
\* populated fields (base peak, expected) and one gap, and the entry for 200 has
\* one populated field (opt peak) and two gaps.
C7_AlignedUnionWithGaps ==
    pc = "mem_done" =>
        /\ merged.xs = SortedInts(MemSizes("base") \cup MemSizes("opt"))
        /\ \A i \in 1..Len(merged.xs) :
            LET n == merged.xs[i]
                lastBase == rows[Maximum(MemRowsAt("base", n))]
                lastOpt == rows[Maximum(MemRowsAt("opt", n))]
            IN  /\ merged.base[i] = IF n \in MemSizes("base")
                                    THEN <<Bytes(lastBase.mem_peak_bytes)>> ELSE None
                /\ merged.opt[i] = IF n \in MemSizes("opt")
                                   THEN <<Bytes(lastOpt.mem_peak_bytes)>> ELSE None
                /\ merged.exp[i] = IF n \in MemSizes("base")
                                   THEN <<Bytes(lastBase.expected_node_bytes)>> ELSE None
        /\ (MemSizes("base") = {100} /\ MemSizes("opt") = {200}) =>
            /\ merged.xs = <<100, 200>>
            /\ Populated(1) = 2 /\ merged.opt[1] = None
            /\ Populated(2) = 1 /\ merged.opt[2] # None

\* base-only data at size 100 and opt-only data at size 200, merged
C7_Witness ==
    /\ pc = "mem_done"
    /\ MemSizes("base") = {100}
    /\ MemSizes("opt") = {200}
    /\ merged.xs = <<100, 200>>
    /\ merged.base[2] = None
    /\ merged.exp[2] = None

(* ------------------------------- main --------------------------------- *)
\* the operations main tabulates and plots, in its order
TableOps == <<"time_search_hit", "time_predecessor", "time_cycles_insert_delete">>
TimeImages ==
    <<"time_search_hit.png", "time_predecessor.png", "time_cycles_insert_delete.png">>
SpeedupImages ==
    <<"speedup_search_hit_paired.png", "speedup_predecessor_paired.png",
      "speedup_cycles_paired.png">>

\* ops = sorted(set(r["op"] for r in rows)), used for membership only
OpsOf(rs) == {rs[i].op : i \in 1..Len(rs)}

\* the lines print_speedup_table(rows, o) prints
print_speedup_table(rs, o) ==
    LET sp == paired_speedup(rs, o)
        body == TableLines(sp)
    IN  <<[kind |-> "title", op |-> o], [kind |-> "header"]>>
        \o [j \in 1..Len(body) |->
               [kind |-> "row", op |-> o, n |-> body[j].n, median |-> body[j].median,
                p25 |-> body[j].p25, p75 |-> body[j].p75]]

\* OUT_DIR.mkdir(exist_ok=True)
MainMkdir ==
    /\ pc = "main"
    /\ out_dir' = TRUE
    /\ pc' = "read"
    /\ UNCHANGED <<merged, csv_exists, stdout, images, idx>>
    /\ UNCHANGED pvars
    /\ UNCHANGED qvars

\* rows = read_rows(CSV_FILE) and the two prints after it; open() raises
\* FileNotFoundError when the file is at neither location
MainReadRows ==
    /\ pc = "read"
    /\ IF csv_exists
       THEN /\ stdout' = stdout \o <<[kind |-> "csv"], [kind |-> "ops", ops |-> OpsOf(rows)]>>
            /\ idx' = 1
            /\ pc' = "tables"
       ELSE /\ pc' = "aborted"
            /\ UNCHANGED <<stdout, idx>>
    /\ UNCHANGED <<merged, csv_exists, out_dir, images>>
    /\ UNCHANGED pvars
    /\ UNCHANGED qvars

\* one round of the loop over the three operations: print_speedup_table
MainPrintTable ==
    /\ pc = "tables"
    /\ LET o == TableOps[idx]
       IN  IF o \in OpsOf(rows) /\ PairedSpeedupRaises(rows, o)
           THEN /\ pc' = "aborted"
                /\ UNCHANGED <<stdout, idx>>
           ELSE /\ stdout' = IF o \in OpsOf(rows) THEN stdout \o print_speedup_table(rows, o)
                             ELSE stdout
                /\ idx' = IF idx = Len(TableOps) THEN 1 ELSE idx + 1
                /\ pc' = IF idx = Len(TableOps) THEN "plots" ELSE "tables"
    /\ UNCHANGED <<merged, csv_exists, out_dir, images>>
    /\ UNCHANGED pvars
    /\ UNCHANGED qvars

\* one of the three blocks of main that call plot_time and plot_speedup_paired
MainPlot ==
    /\ pc = "plots"
    /\ LET o == TableOps[idx]
           timeRaises ==
               \E v \in Variants : GroupSamplesRaises(rows, o, v, "ns_per_op")
           withTime == images \cup {TimeImages[idx]}
       IN  IF o \notin OpsOf(rows)
           THEN /\ images' = images
                /\ idx' = IF idx = Len(TableOps) THEN 0 ELSE idx + 1
                /\ pc' = IF idx = Len(TableOps) THEN "memplot" ELSE "plots"
           ELSE IF timeRaises
           THEN /\ images' = images
                /\ pc' = "aborted"
                /\ UNCHANGED idx
           ELSE IF PairedSpeedupRaises(rows, o)
           THEN /\ images' = withTime
                /\ pc' = "aborted"
                /\ UNCHANGED idx
           ELSE /\ images' =
                      IF Len(FilterSeries(paired_speedup(rows, o)).xs) = 0 THEN withTime
                      ELSE withTime \cup {SpeedupImages[idx]}
                /\ idx' = IF idx = Len(TableOps) THEN 0 ELSE idx + 1
                /\ pc' = IF idx = Len(TableOps) THEN "memplot" ELSE "plots"
    /\ UNCHANGED <<merged, csv_exists, out_dir, stdout>>
    /\ UNCHANGED pvars
    /\ UNCHANGED qvars

\* the block of main that calls plot_mem_insert_peak
MainPlotMem ==
    /\ pc = "memplot"
    /\ IF MemOp \in OpsOf(rows) /\ MemRaises(rows)
       THEN /\ pc' = "aborted"
            /\ UNCHANGED <<merged, images>>
       ELSE /\ merged' = IF MemOp \in OpsOf(rows) THEN MemSeries(rows) ELSE merged
            /\ images' = IF MemOp \in OpsOf(rows) /\ Len(MemSeries(rows).xs) > 0
                         THEN images \cup {"memory_insert_peak.png"}
                         ELSE images
            /\ pc' = "finish"
    /\ UNCHANGED <<csv_exists, out_dir, stdout, idx>>
    /\ UNCHANGED pvars
    /\ UNCHANGED qvars

\* print("Wrote plots to:", ...)
MainFinish ==
    /\ pc = "finish"
    /\ stdout' = Append(stdout, [kind |-> "wrote"])
    /\ pc' = "done"
    /\ UNCHANGED <<merged, csv_exists, out_dir, images, idx>>
    /\ UNCHANGED pvars
    /\ UNCHANGED qvars

(* ----------------------- specification: main -------------------------- *)
MaxMainRows == 3     \* most rows in the CSV file main reads

Malformed == <<"x">>
Ten == <<"1", "0">>
MainRowSet ==
    {Row("time_search_hit", "base", Ten, <<"0">>, <<"2", ".", "0">>),
     Row("time_search_hit", "opt", Ten, <<"0">>, <<"1", ".", "0">>),
     Row("time_search_hit", "opt", Ten, <<"1">>, Malformed),
     Row("time_predecessor", "base", Ten, <<"0">>, <<"1", ".", "0">>),
     Row("time_predecessor", "opt", Malformed, <<"0">>, <<"1", ".", "0">>),
     Row("time_cycles_insert_delete", "opt", Ten, <<"0">>, <<"1", ".", "0">>),
     MemRow("base", <<"1", "0", "0">>, <<"6", "4">>, <<"4", "8">>),
     MemRow("opt", <<"1", "0", "0">>, Malformed, <<"4", "8">>)}

InitMain ==
    /\ csv_exists \in BOOLEAN
    /\ \E j \in 0..MaxMainRows :
          /\ rows \in [1..j -> MainRowSet]
          /\ csv_exists \/ j = 0
    /\ op = ""
    /\ pc = "main"
    /\ by_n = None
    /\ speedup = None
    /\ groups = None
    /\ summary = None
    /\ merged = <<>>
    /\ out_dir = FALSE
    /\ stdout = <<>>
    /\ images = {}
    /\ idx = 0
    /\ sorted_vals = <<>>
    /\ q1 = RZero
    /\ q2 = RZero
    /\ res1 = None
    /\ res2 = None

NextMain ==
    \/ MainMkdir
    \/ MainReadRows
    \/ MainPrintTable
    \/ MainPlot
    \/ MainPlotMem
    \/ MainFinish

SpecMain == InitMain /\ [][NextMain]_vars

TableRowsPrinted == {j \in 1..Len(stdout) : stdout[j].kind = "row"}

\* C8: a fatal error (input file not found, or a row field that fails to
\* parse) ends the run of main before any output artifact is produced: when the
\* error aborts the run no speedup table line has been printed, no image has
\* been saved and no output directory has been created.
C8_NoArtifactBeforeAbort ==
    pc = "aborted" =>
        /\ TableRowsPrinted = {}
        /\ images = {}
        /\ ~out_dir

====
